---- MODULE Spec2Model ----
(***************************************************************************)
(* Model of the car-record request handler (src/lambda/lambda.go) and of   *)
(* the table it is deployed against (src/unnamed/part_000).                *)
(*                                                                         *)
(* One handler invocation is one atomic step: every path through the       *)
(* handler issues at most one storage call, which is its only interaction  *)
(* with shared state.                                                      *)
(*                                                                         *)
(* Text that the code converts (decimal renderings of Year) is a sequence  *)
(* of one-character strings; text that the code only copies (ID, Make,     *)
(* Model, messages) is a TLA+ string.                                      *)
(***************************************************************************)
EXTENDS Integers, Sequences, FiniteSets, TLC

VARIABLES
    env,        \* value of TABLE_NAME in the process environment ("" = unset)
    table,      \* the stored items of the table
    req,        \* the request of the latest invocation
    outcome,    \* "idle" | "response" | "panic" for the latest invocation
    resp,       \* the response of the latest invocation
    calls,      \* the storage calls the latest invocation issued, in order
    puts        \* history: per ID, the last Car written through the handler

vars == <<env, table, req, outcome, resp, calls, puts>>

-----------------------------------------------------------------------------
(* Bounds and input domains *)

MaxItems == 2

Ids == {"", "c1", "c2"}

TableNames == {"", "MyItems"}

Errors == {"throttled"}

OtherMethods == {"DELETE", "PUT"}

-----------------------------------------------------------------------------
(* Decimal text <-> integer *)

DigitChars == <<"0", "1", "2", "3", "4", "5", "6", "7", "8", "9">>

IsDigit(c) == \E i \in 1..10 : DigitChars[i] = c

DigitVal(c) == (CHOOSE i \in 1..10 : DigitChars[i] = c) - 1

RECURSIVE FormatNat(_)
FormatNat(n) ==
    IF n < 10 THEN <<DigitChars[n + 1]>>
    ELSE Append(FormatNat(n \div 10), DigitChars[(n % 10) + 1])

\* fmt.Sprintf("%d", n), and the rendering of an int by json.Marshal
FormatInt_DropSign(n) == IF n < 0 THEN FormatNat(-n) ELSE FormatNat(n)

FormatInt(n) == IF n < 0 THEN <<"-">> \o FormatNat(-n) ELSE FormatNat(n)

RECURSIVE DigitsVal(_)
DigitsVal(ds) ==
    IF ds = <<>> THEN 0
    ELSE 10 * DigitsVal(SubSeq(ds, 1, Len(ds) - 1)) + DigitVal(ds[Len(ds)])

AllDigits(ds) == ds # <<>> /\ \A i \in 1..Len(ds) : IsDigit(ds[i])

\* strconv.Atoi: optional sign, then one or more digits; on a syntax error
\* the value is 0 and err is set.  (Texts long enough to leave the 64-bit
\* range are not among the inputs of this model.)
Atoi(text) ==
    LET signed == text # <<>> /\ text[1] \in {"+", "-"}
        ds     == IF signed THEN Tail(text) ELSE text
    IN  IF AllDigits(ds)
        THEN [val |-> IF signed /\ text[1] = "-" THEN -DigitsVal(ds) ELSE DigitsVal(ds),
              ok  |-> TRUE]
        ELSE [val |-> 0, ok |-> FALSE]

-----------------------------------------------------------------------------
(* JSON documents, as far as the handler distinguishes them *)

JString(s) == [t |-> "string", s |-> s]

JNumber(lit) == [t |-> "number", lit |-> lit]

JNull == [t |-> "null"]

JBool == [t |-> "bool"]

JObject(fields) == [t |-> "object", fields |-> fields]

JArray(elems) == [t |-> "array", elems |-> elems]

\* text that is not a JSON document (the empty body included)
Malformed == [t |-> "malformed"]

-----------------------------------------------------------------------------
(* type Car *)

Car(id, make, model, year) == [ID |-> id, Make |-> make, Model |-> model, Year |-> year]

ZeroCar == Car("", "", "", 0)

\* decoding of one string-typed struct field from the member named key
DecodeString(fields, key) ==
    IF key \notin DOMAIN fields \/ fields[key].t = "null"
    THEN [val |-> "", ok |-> TRUE]
    ELSE IF fields[key].t = "string"
    THEN [val |-> fields[key].s, ok |-> TRUE]
    ELSE [val |-> "", ok |-> FALSE]

DecodeInt_Lenient(fields, key) ==
    IF key \notin DOMAIN fields \/ fields[key].t # "number"
    THEN [val |-> 0, ok |-> TRUE]
    ELSE Atoi(fields[key].lit)

\* decoding of the int-typed struct field: an absent member and a null leave
\* the zero value; a number must be an integer literal; anything else is a
\* type error.
DecodeInt(fields, key) ==
    IF key \notin DOMAIN fields \/ fields[key].t = "null"
    THEN [val |-> 0, ok |-> TRUE]
    ELSE IF fields[key].t = "number"
    THEN Atoi(fields[key].lit)
    ELSE [val |-> 0, ok |-> FALSE]

\* json.Unmarshal(doc, &item) with item a zero Car
Unmarshal(doc) ==
    CASE doc.t = "malformed" -> [err |-> TRUE, item |-> ZeroCar]
      [] doc.t = "null"      -> [err |-> FALSE, item |-> ZeroCar]
      [] doc.t = "object"    ->
            LET id    == DecodeString(doc.fields, "id")
                make  == DecodeString(doc.fields, "make")
                model == DecodeString(doc.fields, "model")
                year  == DecodeInt(doc.fields, "year")
            IN  [err  |-> ~(id.ok /\ make.ok /\ model.ok /\ year.ok),
                 item |-> Car(id.val, make.val, model.val, year.val)]
      [] OTHER               -> [err |-> TRUE, item |-> ZeroCar]

\* json.Marshal(item) for item a Car
MarshalCar(c) ==
    JObject([id    |-> JString(c.ID),
             make  |-> JString(c.Make),
             model |-> JString(c.Model),
             year  |-> JNumber(FormatInt(c.Year))])

\* json.Marshal(cars) for cars a non-nil []Car
MarshalCars(cars) == JArray([i \in 1..Len(cars) |-> MarshalCar(cars[i])])

-----------------------------------------------------------------------------
(* Storage items and the three storage calls *)

AttributeValueMemberS(v) == [kind |-> "S", S |-> v]

AttributeValueMemberN(v) == [kind |-> "N", N |-> v]

\* item[a].(*types.AttributeValueMemberS) succeeds
IsS(item, a) == a \in DOMAIN item /\ item[a].kind = "S"

\* item[a].(*types.AttributeValueMemberN) succeeds
IsN(item, a) == a \in DOMAIN item /\ item[a].kind = "N"

\* out.Item of a lookup that matched nothing
Nil == [a \in {} |-> AttributeValueMemberS("")]

\* the orders in which a scan may return the items of tbl
Orders(tbl) ==
    {s \in [1..Cardinality(tbl) -> tbl] : \A i, j \in 1..Cardinality(tbl) : s[i] = s[j] => i = j}

\* db.Scan: o is what the storage service does with this call
Scan(tbl, o) ==
    IF o.err # "" THEN [err |-> o.err, Items |-> <<>>]
    ELSE [err |-> "", Items |-> o.order]

\* db.GetItem with Key {"ID": S id}
GetItem(tbl, id, o) ==
    IF o.err # "" THEN [err |-> o.err, Item |-> Nil]
    ELSE IF \E x \in tbl : x["ID"] = AttributeValueMemberS(id)
    THEN [err |-> "", Item |-> CHOOSE x \in tbl : x["ID"] = AttributeValueMemberS(id)]
    ELSE [err |-> "", Item |-> Nil]

\* db.PutItem: the table's hash key is ID, so the item replaces whatever the
\* table holds under the same ID
PutItem(tbl, item, o) ==
    IF o.err # "" THEN [err |-> o.err, table |-> tbl]
    ELSE [err |-> "", table |-> {x \in tbl : x["ID"] # item["ID"]} \cup {item}]

-----------------------------------------------------------------------------
(* Responses *)

TextBody(parts) == [kind |-> "text", parts |-> parts]

JsonBody(doc) == [kind |-> "json", doc |-> doc]

Response(status, body, ctype) == [StatusCode |-> status, Body |-> body, ContentType |-> ctype]

NoResponse == Response(0, TextBody(<<>>), "")

\* a handler that returned: its response, the storage calls it made, the table after
Returned(r, cs, tbl) == [outcome |-> "response", resp |-> r, calls |-> cs, table |-> tbl]

\* a handler that panicked
Panicked(cs, tbl) == [outcome |-> "panic", resp |-> NoResponse, calls |-> cs, table |-> tbl]

Call(op, err) == [op |-> op, err |-> err]

TableNameUnset_Never(e) == FALSE

\* TableNameEnv == ""
TableNameUnset(e) == e = ""

EnvError == Response(500, TextBody(<<"TABLE_NAME environment variable is not set">>), "")

-----------------------------------------------------------------------------
(* handleGet *)

\* the scan loop's year: zero unless the attribute is number-typed, and the
\* error of Atoi is dropped
ScanYear(item) == IF IsN(item, "Year") THEN Atoi(item["Year"].N).val ELSE 0

\* the unchecked assertions item["ID"|"Make"|"Model"].(*AttributeValueMemberS)
StringsAssert(item) == IsS(item, "ID") /\ IsS(item, "Make") /\ IsS(item, "Model")

ItemCar_ModelFromMake(item, year) == Car(item["ID"].S, item["Make"].S, item["Make"].S, year)

\* the Car literal built from a stored item
ItemCar(item, year) == Car(item["ID"].S, item["Make"].S, item["Model"].S, year)

\* the loop over out.Items: cars when it completes, a panic when an
\* assertion fails
ScanCars(items) ==
    IF \E i \in 1..Len(items) : ~StringsAssert(items[i])
    THEN [panic |-> TRUE, cars |-> <<>>]
    ELSE [panic |-> FALSE,
          cars  |-> [i \in 1..Len(items) |-> ItemCar(items[i], ScanYear(items[i]))]]

ScanResponse_NotFoundWhenEmpty(cars) ==
    IF cars = <<>> THEN Response(404, TextBody(<<"item not found">>), "")
    ELSE Response(200, JsonBody(MarshalCars(cars)), "application/json")

ScanResponse(cars) == Response(200, JsonBody(MarshalCars(cars)), "application/json")

ItemIsNil_Never(item) == FALSE

\* out.Item == nil
ItemIsNil(item) == item = Nil

handleGet(r, e, tbl, o) ==
    IF TableNameUnset(e) THEN Returned(EnvError, <<>>, tbl)
    ELSE IF r.id = ""
    THEN LET out == Scan(tbl, o)
             cs  == <<Call("Scan", out.err)>>
             res == ScanCars(out.Items)
         IN  IF out.err # "" THEN Returned(Response(500, TextBody(<<out.err>>), ""), cs, tbl)
             ELSE IF res.panic THEN Panicked(cs, tbl)
             ELSE Returned(ScanResponse(res.cars), cs, tbl)
    ELSE LET out == GetItem(tbl, r.id, o)
             cs  == <<Call("GetItem", out.err)>>
         IN  IF out.err # "" THEN Returned(Response(500, TextBody(<<out.err>>), ""), cs, tbl)
             ELSE IF ItemIsNil(out.Item)
             THEN Returned(Response(404, TextBody(<<"item not found">>), ""), cs, tbl)
             ELSE IF ~IsN(out.Item, "Year")
             THEN Returned(Response(500, TextBody(<<"invalid year field">>), ""), cs, tbl)
             ELSE IF ~StringsAssert(out.Item) THEN Panicked(cs, tbl)
             ELSE Returned(Response(200,
                                    JsonBody(MarshalCar(ItemCar(out.Item,
                                                                Atoi(out.Item["Year"].N).val))),
                                    "application/json"),
                           cs, tbl)

-----------------------------------------------------------------------------
(* handlePost *)

\* the Item of the PutItemInput
CarItem(item) ==
    [a \in {"ID", "Make", "Model", "Year"} |->
        CASE a = "ID"    -> AttributeValueMemberS(item.ID)
          [] a = "Make"  -> AttributeValueMemberS(item.Make)
          [] a = "Model" -> AttributeValueMemberS(item.Model)
          [] a = "Year"  -> AttributeValueMemberN(FormatInt(item.Year))]

Created(item) == Response(201, TextBody(<<"item ", item.ID, " created">>), "text/plain")

handlePost_Retry(r, e, tbl, o) ==
    LET dec == Unmarshal(r.body)
    IN  IF dec.err THEN Returned(Response(400, TextBody(<<"invalid request body">>), ""), <<>>, tbl)
        ELSE IF TableNameUnset(e) THEN Returned(EnvError, <<>>, tbl)
        ELSE LET out == PutItem(tbl, CarItem(dec.item), o)
                 cs  == <<Call("PutItem", out.err)>>
             IN  IF out.err # ""
                 THEN LET again == PutItem(tbl, CarItem(dec.item), [o EXCEPT !.err = ""])
                      IN  Returned(Created(dec.item), cs \o <<Call("PutItem", again.err)>>,
                                   again.table)
                 ELSE Returned(Created(dec.item), cs, out.table)

handlePost(r, e, tbl, o) ==
    LET dec == Unmarshal(r.body)
    IN  IF dec.err THEN Returned(Response(400, TextBody(<<"invalid request body">>), ""), <<>>, tbl)
        ELSE IF TableNameUnset(e) THEN Returned(EnvError, <<>>, tbl)
        ELSE LET out == PutItem(tbl, CarItem(dec.item), o)
                 cs  == <<Call("PutItem", out.err)>>
             IN  IF out.err # ""
                 THEN Returned(Response(500, TextBody(<<out.err>>), ""), cs, tbl)
                 ELSE Returned(Created(dec.item), cs, out.table)

-----------------------------------------------------------------------------
(* handler *)

handler_DefaultToGet(r, e, tbl, o) ==
    CASE r.method = "POST" -> handlePost(r, e, tbl, o)
      [] OTHER             -> handleGet(r, e, tbl, o)

handler(r, e, tbl, o) ==
    CASE r.method = "GET"  -> handleGet(r, e, tbl, o)
      [] r.method = "POST" -> handlePost(r, e, tbl, o)
      [] OTHER             -> Returned(Response(405, TextBody(<<"method not allowed">>), ""),
                                       <<>>, tbl)

-----------------------------------------------------------------------------
(* Requests the clients send and items other writers store *)

Request(method, id, body) == [method |-> method, id |-> id, body |-> body]

NoRequest == Request("", "", Malformed)

\* the JSON number a client writes for a year
YearLit(y) ==
    CASE y = 2020 -> <<"2", "0", "2", "0">>
      [] y = -7   -> <<"-", "7">>
      [] y = 0    -> <<"0">>

\* the JSON object {"id":..,"make":..,"model":..,"year":..} of a record
Encode(c) ==
    JObject([id    |-> JString(c.ID),
             make  |-> JString(c.Make),
             model |-> JString(c.Model),
             year  |-> JNumber(YearLit(c.Year))])

Cars ==
    {Car(id, "Toyota", "Corolla", 2020) : id \in Ids} \cup {Car(id, "Honda", "Civic", -7) : id \in Ids}
        \cup {Car("c2", "", "", 0)}

Without(f, key) == [k \in DOMAIN f \ {key} |-> f[k]]

BaseFields == Encode(Car("c1", "Toyota", "Corolla", 2020)).fields

\* bodies that are not the encoding of a record with all four fields
OddBodies ==
    { Malformed, JNull, JArray(<<>>),
      JObject(Without(BaseFields, "year")),
      JObject(Without(BaseFields, "id")),
      JObject([BaseFields EXCEPT !["year"] = JNull]),
      JObject([BaseFields EXCEPT !["year"] = JString("2020")]),
      JObject([BaseFields EXCEPT !["year"] = JBool]),
      JObject([BaseFields EXCEPT !["year"] = JArray(<<>>)]),
      JObject([BaseFields EXCEPT !["year"] = JNumber(<<"1", ".", "5">>)]),
      JObject([BaseFields EXCEPT !["make"] = JNumber(<<"1">>)]) }

Bodies == {Encode(c) : c \in Cars} \cup OddBodies

\* items as another writer of the table may store them: the key schema forces
\* a string-typed ID, every other attribute is free
OddItems ==
    UNION { LET good == CarItem(Car(id, "Toyota", "Corolla", 2020))
            IN  { [good EXCEPT !["Year"] = AttributeValueMemberN(<<"1", ".", "5">>)],
                  [good EXCEPT !["Year"] = AttributeValueMemberS("2020")],
                  Without(good, "Year"),
                  Without(good, "Make"),
                  [good EXCEPT !["Model"] = AttributeValueMemberN(<<"3">>)] }
          : id \in Ids }

-----------------------------------------------------------------------------
(* State machine *)

NoCar == [none |-> TRUE]

NoPut == [last |-> NoCar, over |-> FALSE]

\* TRUE when b replaces a record a that differs from it in every other field
AllDiffer(a, b) == a # NoCar /\ a.Make # b.Make /\ a.Model # b.Model /\ a.Year # b.Year

Init ==
    /\ env \in TableNames
    /\ table = {}
    /\ req = NoRequest
    /\ outcome = "idle"
    /\ resp = NoResponse
    /\ calls = <<>>
    /\ puts = [id \in Ids |-> NoPut]

\* one invocation of handler with request r, the storage service answering
\* its call as o says
Invoke(r, o) ==
    \E res \in {handler(r, env, table, o)} :
        /\ Cardinality(res.table) <= MaxItems
        /\ req' = r
        /\ outcome' = res.outcome
        /\ resp' = res.resp
        /\ calls' = res.calls
        /\ table' = res.table
        /\ puts' = IF res.outcome = "response" /\ res.resp.StatusCode = 201
                   THEN LET c == Unmarshal(r.body).item
                        IN  [puts EXCEPT ![c.ID] = [last |-> c, over |-> AllDiffer(puts[c.ID].last, c)]]
                   ELSE puts
        /\ UNCHANGED env

\* what the storage service may do with the one call of an invocation: fail
\* with an error, or succeed (a scan returning the items in some order)
Oracle(err, order) == [err |-> err, order |-> order]

Get ==
    \E id \in Ids, err \in Errors \cup {""} :
        \E order \in IF id = "" /\ err = "" THEN Orders(table) ELSE {<<>>} :
            Invoke(Request("GET", id, Malformed), Oracle(err, order))

Post ==
    \E body \in Bodies, err \in Errors \cup {""} :
        Invoke(Request("POST", "", body), Oracle(err, <<>>))

Other ==
    \E m \in OtherMethods, id \in Ids, body \in {Malformed, Encode(Car("c1", "Toyota", "Corolla", 2020))} :
        \E err \in Errors \cup {""} :
            Invoke(Request(m, id, body), Oracle(err, <<>>))

\* another writer of the table stores an item
ExternalPut ==
    \E item \in OddItems :
        /\ table' = PutItem(table, item, Oracle("", <<>>)).table
        /\ Cardinality(table') <= MaxItems
        /\ puts' = [puts EXCEPT ![item["ID"].S] = NoPut]
        /\ req' = NoRequest
        /\ outcome' = "idle"
        /\ resp' = NoResponse
        /\ calls' = <<>>
        /\ UNCHANGED env

Next == Get \/ Post \/ Other \/ ExternalPut

Spec == Init /\ [][Next]_vars

-----------------------------------------------------------------------------
(* Vocabulary of the properties *)

\* the latest step was an invocation of the handler
Invoked == outcome # "idle"

\* every storage call of the latest invocation succeeded
StorageOk == \A i \in 1..Len(calls) : calls[i].err = ""

Status == resp.StatusCode

\* no item was ever stored under id (nothing removes an item from the table)
NeverWritten(id) == \A x \in table : x["ID"] # AttributeValueMemberS(id)

\* the stored item a lookup of id matches
Stored(id) == CHOOSE x \in table : x["ID"] = AttributeValueMemberS(id)

-----------------------------------------------------------------------------
(* C1 *)

\* the latest invocation was a POST of the record R that answered 201
PostedOk(R) ==
    /\ outcome = "response" /\ req.method = "POST" /\ req.body = Encode(R)
    /\ Status = 201

\* the next invocation is a GET with id = R.ID whose storage call succeeds and
\* that answers 200 with the encoding of R
ReadsBack(R) ==
    (req'.method = "GET" /\ req'.id = R.ID /\ env # "" /\ \A i \in 1..Len(calls') : calls'[i].err = "")
        => (outcome' = "response" /\ resp'.StatusCode = 200 /\ resp'.Body = JsonBody(Encode(R)))

\* C1 as stated: for every record R, whatever its ID, a POST of R followed by
\* a GET with id = R.ID (table name configured, storage calls succeeding)
\* returns 200 with a body that decodes to R.
C1_RoundTripAnyId == [][\A R \in Cars : PostedOk(R) => ReadsBack(R)]_vars

\* C1 amended: the same for every record R whose ID is not the empty string.
C1_RoundTrip == [][\A R \in Cars : (PostedOk(R) /\ R.ID # "") => ReadsBack(R)]_vars

C1_Witness ==
    /\ outcome = "response" /\ req.method = "GET" /\ req.id = "c1" /\ Status = 200
    /\ puts["c1"].last = Car("c1", "Honda", "Civic", -7)
    /\ resp.Body = JsonBody(Encode(Car("c1", "Honda", "Civic", -7)))

-----------------------------------------------------------------------------
(* C2 *)

YearMissing(body) == body.t = "object" /\ "year" \notin DOMAIN body.fields

YearOfType(body, types) ==
    body.t = "object" /\ "year" \in DOMAIN body.fields /\ body.fields["year"].t \in types

JsonTypes == {"string", "number", "bool", "null", "object", "array"}

\* the members id, make and model are absent, null or strings
StringsWellFormed(body) ==
    body.t = "object" /\ \A k \in {"id", "make", "model"} \cap DOMAIN body.fields : body.fields[k].t \in {"string", "null"}

\* the id a body carries, "" when it carries none
IdOf(body) ==
    IF body.t = "object" /\ "id" \in DOMAIN body.fields /\ body.fields["id"].t = "string" THEN body.fields["id"].s ELSE ""

Rejected400 == outcome' = "response" /\ resp'.StatusCode = 400 /\ calls' = <<>> /\ table' = table

\* C2 as stated: a POST whose body lacks year, or whose year is a non-numeric
\* JSON value, returns 400, makes no PutItem call and leaves the table
\* unchanged.  (Stated for the invocations in which the table name is
\* configured and the storage service is up, where a 400 can only come from
\* the body.)
C2_MissingOrNonNumericYearRejected ==
    [][(/\ req'.method = "POST"
        /\ (YearMissing(req'.body) \/ YearOfType(req'.body, JsonTypes \ {"number"}))
        /\ env # ""
        /\ \A i \in 1..Len(calls') : calls'[i].err = "")
       => Rejected400]_vars

\* C2 amended: a POST whose year is a non-numeric JSON value other than null
\* returns 400, makes no PutItem call and leaves the table unchanged; a body
\* that lacks year or holds null for it, and is otherwise well formed, is
\* decoded with Year = 0 and, with the table name configured and the put
\* succeeding, is answered 201 and stored with Year "0".
C2_NonNumericYearRejected ==
    [][/\ (req'.method = "POST" /\ YearOfType(req'.body, JsonTypes \ {"number", "null"}))
          => Rejected400
       /\ (/\ req'.method = "POST"
           /\ (YearMissing(req'.body) \/ YearOfType(req'.body, {"null"}))
           /\ StringsWellFormed(req'.body)
           /\ env # ""
           /\ \A i \in 1..Len(calls') : calls'[i].err = "")
          => (/\ resp'.StatusCode = 201
              /\ calls' = <<Call("PutItem", "")>>
              /\ \E x \in table' :
                    /\ x["ID"] = AttributeValueMemberS(IdOf(req'.body))
                    /\ x["Year"] = AttributeValueMemberN(<<"0">>))]_vars

C2_Witness ==
    /\ outcome = "response" /\ req.method = "POST" /\ Status = 400 /\ calls = <<>>
    /\ YearOfType(req.body, {"string"})
    /\ table # {}

-----------------------------------------------------------------------------
(* C3 *)

\* C3 as stated: with the table name unset, every request is answered with a
\* 5xx status and no storage call is made.
C3_EveryRequest5xx ==
    (env = "" /\ Invoked) => (outcome = "response" /\ Status \in 500..599 /\ calls = <<>>)

\* C3 amended: with the table name unset no request makes a storage call; a
\* GET and a POST whose body decodes are answered 500, a POST whose body does
\* not decode is answered 400, and any other method is answered 405.
C3_UnsetTableName ==
    (env = "" /\ Invoked) =>
        /\ outcome = "response"
        /\ calls = <<>>
        /\ Status = CASE req.method = "GET"  -> 500
                      [] req.method = "POST" -> IF Unmarshal(req.body).err THEN 400 ELSE 500
                      [] OTHER               -> 405

C3_Witness ==
    /\ env = "" /\ outcome = "response" /\ req.method = "POST" /\ Status = 500
    /\ resp.Body = TextBody(<<"TABLE_NAME environment variable is not set">>)
    /\ table # {}

-----------------------------------------------------------------------------
(* C4 *)

\* the record of a stored item with every attribute that is missing or of
\* the wrong kind replaced by the zero value
ZeroFilled(item) ==
    Car(IF IsS(item, "ID") THEN item["ID"].S ELSE "",
        IF IsS(item, "Make") THEN item["Make"].S ELSE "",
        IF IsS(item, "Model") THEN item["Model"].S ELSE "",
        IF IsN(item, "Year") THEN Atoi(item["Year"].N).val ELSE 0)

\* C4: every invocation, whatever the table holds, ends with a response, and
\* a stored item that lacks an attribute or holds it with the wrong kind is
\* read back with that field zero.
C4_AlwaysResponds ==
    /\ Invoked => outcome = "response"
    /\ (/\ Invoked /\ req.method = "GET" /\ req.id # "" /\ env # "" /\ StorageOk
        /\ ~NeverWritten(req.id))
       => (Status = 200 /\ resp.Body = JsonBody(MarshalCar(ZeroFilled(Stored(req.id)))))

-----------------------------------------------------------------------------
(* C5 *)

\* the elements of a scan response that carry the given id
WithId(doc, id) == {i \in 1..Len(doc.elems) : doc.elems[i].fields["id"] = JString(id)}

\* C5: the table never holds two items with the same ID, and once the handler
\* has written B under an ID (replacing whatever was there) and no other
\* writer has touched that ID since, a read returns exactly B: a GET of that
\* ID whose lookup succeeds answers 200 with B, and a GET without id that
\* answers 200 lists that ID once, as B.
C5_LastWriterWins ==
    /\ \A x, y \in table : x["ID"] = y["ID"] => x = y
    /\ (/\ Invoked /\ req.method = "GET" /\ req.id # "" /\ StorageOk /\ calls # <<>>
        /\ puts[req.id].last # NoCar)
       => (outcome = "response" /\ Status = 200
           /\ resp.Body = JsonBody(Encode(puts[req.id].last)))
    /\ (outcome = "response" /\ req.method = "GET" /\ req.id = "" /\ Status = 200)
       => \A id \in Ids :
            puts[id].last # NoCar =>
                /\ Cardinality(WithId(resp.Body.doc, id)) = 1
                /\ \A i \in WithId(resp.Body.doc, id) : resp.Body.doc.elems[i] = Encode(puts[id].last)

\* B replaced a record A that differs from it in every field but the ID, an
\* item under another ID is stored, and the read of the ID answered B
C5_Witness ==
    /\ outcome = "response" /\ req.method = "GET" /\ req.id = "c1" /\ Status = 200
    /\ puts["c1"].over
    /\ resp.Body = JsonBody(Encode(puts["c1"].last))
    /\ Cardinality(table) = 2

-----------------------------------------------------------------------------
(* C6 *)

NotFound == outcome = "response" /\ Status = 404 /\ resp.Body = TextBody(<<"item not found">>)

\* C6 as stated: a GET whose id names an ID under which nothing was ever
\* stored returns 404 "item not found", whatever else the table holds, for
\* every ID value.  (Stated for the invocations in which the table name is
\* configured and the storage call succeeds.)
C6_UnknownIdNotFoundAnyId ==
    (Invoked /\ req.method = "GET" /\ NeverWritten(req.id) /\ env # "" /\ StorageOk) => NotFound

\* C6 amended: the same for every ID value but the empty string.
C6_UnknownIdNotFound ==
    (Invoked /\ req.method = "GET" /\ req.id # "" /\ NeverWritten(req.id) /\ env # "" /\ StorageOk)
        => (NotFound /\ calls = <<Call("GetItem", "")>>)

C6_Witness ==
    /\ req.method = "GET" /\ req.id = "c2" /\ NotFound
    /\ Cardinality(table) = 2

-----------------------------------------------------------------------------
(* C7 *)

\* C7: a request whose method is neither GET nor POST is answered 405 whatever
\* its query and body, makes no storage call and leaves the table unchanged.
C7_OtherMethod405 ==
    [][(req'.method \notin {"", "GET", "POST"})
       => (/\ outcome' = "response" /\ resp'.StatusCode = 405
           /\ calls' = <<>> /\ table' = table)]_vars

C7_Witness ==
    /\ outcome = "response" /\ req.method = "DELETE" /\ Status = 405
    /\ req.id = "c1" /\ req.body = Encode(Car("c1", "Toyota", "Corolla", 2020))
    /\ NeverWritten("c1") /\ table # {}

-----------------------------------------------------------------------------
(* C8 *)

EmptyArray200 ==
    /\ outcome = "response" /\ Status = 200
    /\ resp.Body = JsonBody(JArray(<<>>))
    /\ resp.ContentType = "application/json"

\* C8: a GET without id that scans an empty table (the table name is
\* configured and the scan succeeds) returns 200 with the body "[]", an empty
\* array and not null, and Content-Type application/json; never 404 or 500.
C8_EmptyScan200 ==
    (Invoked /\ req.method = "GET" /\ req.id = "" /\ table = {} /\ env # "" /\ StorageOk)
        => (EmptyArray200 /\ calls = <<Call("Scan", "")>>)

C8_Witness ==
    /\ req.method = "GET" /\ req.id = "" /\ table = {} /\ EmptyArray200
    /\ calls = <<Call("Scan", "")>>

-----------------------------------------------------------------------------
(* C9 *)

\* the Year of the item is not a number-typed attribute holding an integer
YearUndecodable(item) == ~IsN(item, "Year") \/ ~Atoi(item["Year"].N).ok

\* C9: a GET by id that matches an item whose Year cannot be decoded as an
\* integer answers 500; a GET without id answers 200 and lists the same item
\* with Year 0.
C9_UndecodableYear ==
    /\ (/\ Invoked /\ req.method = "GET" /\ req.id # "" /\ env # "" /\ StorageOk
        /\ ~NeverWritten(req.id) /\ YearUndecodable(Stored(req.id)))
       => (outcome = "response" /\ Status = 500)
    /\ (/\ Invoked /\ req.method = "GET" /\ req.id = "" /\ env # "" /\ StorageOk)
       => \A x \in table :
            YearUndecodable(x) =>
                /\ outcome = "response" /\ Status = 200
                /\ \E i \in 1..Len(resp.Body.doc.elems) :
                    /\ resp.Body.doc.elems[i].fields["id"] = JString(x["ID"].S)
                    /\ resp.Body.doc.elems[i].fields["year"] = JNumber(<<"0">>)

-----------------------------------------------------------------------------
(* C10 *)

\* C10: an invocation issues at most one storage call, a GET only a Scan or a
\* GetItem and a POST only a PutItem; when the call fails the response is 500
\* with the error text as body and there is no second call; an invocation
\* that fails or only reads leaves the table unchanged.
C10_OneCallNoRetry ==
    [][(req'.method # "")
       => (/\ Len(calls') <= 1
           /\ \A i \in 1..Len(calls') :
                /\ req'.method = "GET" => calls'[i].op \in {"Scan", "GetItem"}
                /\ req'.method = "POST" => calls'[i].op = "PutItem"
                /\ calls'[i].err # "" =>
                      /\ outcome' = "response" /\ resp'.StatusCode = 500
                      /\ resp'.Body = TextBody(<<calls'[i].err>>)
           /\ (outcome' = "panic" \/ resp'.StatusCode >= 400 \/ req'.method = "GET")
                => table' = table)]_vars

C10_Witness ==
    /\ outcome = "response" /\ req.method = "POST" /\ Status = 500
    /\ calls = <<Call("PutItem", "throttled")>>
    /\ resp.Body = TextBody(<<"throttled">>)
    /\ table # {} /\ NeverWritten(IdOf(req.body))

====
